---------------------------- MODULE Spec2Model ----------------------------
(***************************************************************************)
(* The plant-configuration store of src/api/app.py: one SQLite table       *)
(* `plants` behind a Flask REST interface.                                 *)
(*                                                                         *)
(* Values.  A JSON / SQL scalar is Null (JSON null, Python None, SQL NULL) *)
(* or Val(v).  The store never computes on axiom, rules, iterations, angle *)
(* and the eight shape parameters, so v is the scalar's literal as a       *)
(* string ("0.1", "F"); ids and timestamps, which the store generates and  *)
(* orders, are integers.  A JSON object (a Python dict) is a function from *)
(* its keys to values: a key that is absent is not in its DOMAIN.  Inputs  *)
(* carry values of the types the columns declare, which SQLite's column    *)
(* affinity stores as they are.                                            *)
(***************************************************************************)
EXTENDS Integers, Sequences, FiniteSets, TLC

VARIABLES
    plants,     \* the committed rows of table plants (a set of rows)
    seq,        \* sqlite_sequence of plants: the largest id ever assigned
    now,        \* the last reading of the clock, int(time.time() * 1000)
    request,    \* history: the request handled last
    response,   \* history: the answer to it, [status, body]
    before,     \* history: the committed rows when that request arrived
    calls,      \* the request each worker thread is handling, and how far
    created     \* history: the ids of the rows that a create inserted and
                \* that no request has written since

vars == <<plants, seq, now, request, response, before, calls, created>>

-----------------------------------------------------------------------------
(* Bounds of the model *)

MaxId == 2          \* ids handed out while exploring
MaxTime == 1        \* the clock stops advancing at this reading
MaxBatch == 2       \* records in one bulk import

-----------------------------------------------------------------------------
(* Values and Python dictionaries *)

Null == <<>>
Val(v) == <<v>>

EmptyObject == [k \in {} |-> Null]

\* a JSON array, and a JSON value that is neither an object nor an array
List(items) == [items |-> items]
Scalar(v) == [scalar |-> v]

\* isinstance(v, list), and whether v has the methods of a dict
IsList(v) == "items" \in DOMAIN v
IsDict(v) == "items" \notin DOMAIN v /\ "scalar" \notin DOMAIN v

\* mutant: data.get(key), the default left out
Get_NoDefault(data, key, default) == IF key \in DOMAIN data THEN data[key] ELSE Null

\* dict.get(key, default)
Get(data, key, default) == IF key \in DOMAIN data THEN data[key] ELSE default

\* str(v) inside an f-string
Str(v) == IF v = Null THEN "None" ELSE v[1]

\* a, overridden and extended by b
Merge(a, b) == [k \in DOMAIN a \cup DOMAIN b |-> IF k \in DOMAIN b THEN b[k] ELSE a[k]]

Drop(a, key) == [k \in DOMAIN a \ {key} |-> a[k]]

-----------------------------------------------------------------------------
(* The schema: CREATE TABLE plants *)

Columns ==
    << "name", "timestamp", "axiom", "rules", "iterations", "angle",
       "angle_variation", "length_variation", "length_tapering",
       "leaf_probability", "leaf_generation_threshold",
       "length", "thickness", "tapering" >>

NotNullColumns == {"name", "timestamp", "axiom", "rules", "iterations", "angle"}

\* mutant: the table is created without UNIQUE(name)
UniqueViolation_NoIndex(table, id, name) == FALSE

\* UNIQUE(name): a row other than row `id` already holds `name`
UniqueViolation(table, id, name) ==
    \E r \in table : r.id # id /\ r.name = name

\* the first NOT NULL column that `values` leaves NULL, 0 when there is none
NotNullViolation(values) ==
    LET bad == {i \in DOMAIN Columns :
                    Columns[i] \in NotNullColumns /\ values[Columns[i]] = Null}
    IN  IF bad = {} THEN 0 ELSE CHOOSE i \in bad : \A j \in bad : i <= j

-----------------------------------------------------------------------------
(* SQL statements.  A statement answers [exc, msg, table, seq]: exc is ""  *)
(* when it ran, and otherwise the exception sqlite3 raises, the statement  *)
(* having changed nothing.                                                 *)

Done(table, s) == [exc |-> "", msg |-> <<>>, table |-> table, seq |-> s]

Raise(exc, msg, table, s) == [exc |-> exc, msg |-> msg, table |-> table, seq |-> s]

\* mutant: INSERT OR REPLACE INTO plants, which puts the new row in the
\* place of the row that holds its name
Insert_OrReplace(table, s, values) ==
    LET nn == NotNullViolation(values)
    IN  IF nn # 0
        THEN Raise("IntegrityError",
                   <<"NOT NULL constraint failed: plants.", Columns[nn]>>, table, s)
        ELSE Done({r \in table : r.name # values.name}
                      \cup {Merge([id |-> s + 1], values)}, s + 1)

\* mutant: id INTEGER PRIMARY KEY without AUTOINCREMENT, which takes the id
\* after the largest one in the table
Insert_MaxRowid(table, s, values) ==
    LET nn == NotNullViolation(values)
        ids == {r.id : r \in table}
        top == IF ids = {} THEN 0 ELSE CHOOSE i \in ids : \A j \in ids : j <= i
    IN  IF nn # 0
        THEN Raise("IntegrityError",
                   <<"NOT NULL constraint failed: plants.", Columns[nn]>>, table, s)
        ELSE IF UniqueViolation(table, 0, values.name)
        THEN Raise("IntegrityError",
                   <<"UNIQUE constraint failed: plants.name">>, table, s)
        ELSE Done(table \cup {Merge([id |-> top + 1], values)}, top + 1)

\* INSERT INTO plants (name, ..., tapering) VALUES (...): id INTEGER PRIMARY
\* KEY AUTOINCREMENT takes the id after the largest one ever assigned
Insert(table, s, values) ==
    LET nn == NotNullViolation(values)
    IN  IF nn # 0
        THEN Raise("IntegrityError",
                   <<"NOT NULL constraint failed: plants.", Columns[nn]>>, table, s)
        ELSE IF UniqueViolation(table, 0, values.name)
        THEN Raise("IntegrityError",
                   <<"UNIQUE constraint failed: plants.name">>, table, s)
        ELSE Done(table \cup {Merge([id |-> s + 1], values)}, s + 1)

\* mutant: the UPDATE keeps what the row holds where it holds something,
\* SET column = COALESCE(column, ?)
UpdateByName_KeepStored(table, s, set, name) ==
    LET hit == {r \in table : name # Null /\ r.name = name}
        keep(r) == [c \in DOMAIN r |->
                        IF c \in DOMAIN set /\ r[c] = Null THEN set[c] ELSE r[c]]
    IN  Done((table \ hit) \cup {keep(r) : r \in hit}, s)

\* UPDATE plants SET <set> WHERE name = ?  (NULL = NULL matches no row)
UpdateByName(table, s, set, name) ==
    LET hit == {r \in table : name # Null /\ r.name = name}
        new == Merge([name |-> name], set)
        nn  == NotNullViolation(new)
    IN  IF hit # {} /\ nn # 0
        THEN Raise("IntegrityError",
                   <<"NOT NULL constraint failed: plants.", Columns[nn]>>, table, s)
        ELSE Done((table \ hit) \cup {Merge(r, set) : r \in hit}, s)

\* mutant: DELETE FROM plants, the WHERE clause left out
DeleteById_NoWhere(table, plant_id) == {}

\* DELETE FROM plants WHERE id = ?
DeleteById(table, plant_id) == {r \in table : r.id # plant_id}

\* DELETE FROM plants WHERE name = ?
DeleteByName(table, name) == {r \in table : r.name # name}

\* SELECT * FROM plants WHERE id = ?
SelectById(table, plant_id) == {r \in table : r.id = plant_id}

\* SELECT * FROM plants WHERE name = ?
SelectByName(table, name) == {r \in table : name # Null /\ r.name = name}

\* cursor.fetchone(): None, or the first row of the result
FetchOne(rows) == IF rows = {} THEN Null ELSE Val(CHOOSE r \in rows : TRUE)

-----------------------------------------------------------------------------
(* The wire format *)

\* the dict each handler builds from a row before jsonify
ToJson(plant) ==
    [ id |-> plant.id,
      name |-> plant.name,
      timestamp |-> plant.timestamp,
      axiom |-> plant.axiom,
      rules |-> plant.rules,
      iterations |-> plant.iterations,
      angle |-> plant.angle,
      angleVariation |-> plant.angle_variation,
      lengthVariation |-> plant.length_variation,
      lengthTapering |-> plant.length_tapering,
      leafProbability |-> plant.leaf_probability,
      leafGenerationThreshold |-> plant.leaf_generation_threshold,
      length |-> plant.length,
      thickness |-> plant.thickness,
      tapering |-> plant.tapering ]

\* what a handler leaves behind: its answer and the committed table
Answer(status, body, table, s) ==
    [status |-> status, body |-> body, table |-> table, seq |-> s]

Error(msg) == [error |-> msg]

-----------------------------------------------------------------------------
(* POST /api/plants *)

\* mutant: the list of required fields without its last entry
required_fields_NoAngle == <<"name", "axiom", "rules", "iterations">>

required_fields == <<"name", "axiom", "rules", "iterations", "angle">>

\* the first of `fields` that is not a key of data, "" when data has them all
FirstMissing(fields, data) ==
    LET missing == {i \in DOMAIN fields : fields[i] \notin DOMAIN data}
    IN  IF missing = {} THEN ""
        ELSE fields[CHOOSE i \in missing : \A j \in missing : i <= j]

\* mutant: the INSERT takes the timestamp of the input when it has one
InsertValues_ClientTime(data, timestamp) ==
    [ name |-> data["name"],
      timestamp |-> Get(data, "timestamp", Val(timestamp)),
      axiom |-> data["axiom"],
      rules |-> data["rules"],
      iterations |-> data["iterations"],
      angle |-> data["angle"],
      angle_variation |-> Get(data, "angleVariation", Val("0")),
      length_variation |-> Get(data, "lengthVariation", Val("0")),
      length_tapering |-> Get(data, "lengthTapering", Val("1.0")),
      leaf_probability |-> Get(data, "leafProbability", Val("0")),
      leaf_generation_threshold |-> Get(data, "leafGenerationThreshold", Val("0")),
      length |-> Get(data, "length", Val("1.0")),
      thickness |-> Get(data, "thickness", Val("0.1")),
      tapering |-> Get(data, "tapering", Val("0.8")) ]

\* the parameters of the INSERT
InsertValues(data, timestamp) ==
    [ name |-> data["name"],
      timestamp |-> Val(timestamp),
      axiom |-> data["axiom"],
      rules |-> data["rules"],
      iterations |-> data["iterations"],
      angle |-> data["angle"],
      angle_variation |-> Get(data, "angleVariation", Val("0")),
      length_variation |-> Get(data, "lengthVariation", Val("0")),
      length_tapering |-> Get(data, "lengthTapering", Val("1.0")),
      leaf_probability |-> Get(data, "leafProbability", Val("0")),
      leaf_generation_threshold |-> Get(data, "leafGenerationThreshold", Val("0")),
      length |-> Get(data, "length", Val("1.0")),
      thickness |-> Get(data, "thickness", Val("0.1")),
      tapering |-> Get(data, "tapering", Val("0.8")) ]

\* the SET parameters of the UPDATE that replaces the row of an existing name
ReplaceValues(data, timestamp) ==
    [ timestamp |-> Val(timestamp),
      axiom |-> data["axiom"],
      rules |-> data["rules"],
      iterations |-> data["iterations"],
      angle |-> data["angle"],
      angle_variation |-> Get(data, "angleVariation", Val("0")),
      length_variation |-> Get(data, "lengthVariation", Val("0")),
      length_tapering |-> Get(data, "lengthTapering", Val("1.0")),
      leaf_probability |-> Get(data, "leafProbability", Val("0")),
      leaf_generation_threshold |-> Get(data, "leafGenerationThreshold", Val("0")),
      length |-> Get(data, "length", Val("1.0")),
      thickness |-> Get(data, "thickness", Val("0.1")),
      tapering |-> Get(data, "tapering", Val("0.8")) ]

\* SELECT * FROM plants WHERE name = ? ORDER BY timestamp DESC LIMIT 1
SelectNewestByName(table, name) ==
    LET hit == SelectByName(table, name)
    IN  {r \in hit : \A q \in hit : q.timestamp[1] <= r.timestamp[1]}

\* except sqlite3.IntegrityError: the row of that name is replaced
replace_plant(data, timestamp, table, s) ==
    LET upd   == UpdateByName(table, s, ReplaceValues(data, timestamp), data["name"])
        plant == FetchOne(SelectByName(upd.table, data["name"]))
    IN  IF upd.exc # ""
        THEN Answer(500, Error(upd.msg), table, s)
        ELSE IF plant = Null
        THEN Answer(500, Error(<<"'NoneType' object is not subscriptable">>),
                    upd.table, s)
        ELSE Answer(200, ToJson(plant[1]), upd.table, s)

\* the checks create_plant makes before it opens a connection: the error
\* they answer 400 with, Null when they pass
create_plant_checks(data) ==
    IF DOMAIN data = {}
    THEN Val(Error(<<"No JSON data provided">>))
    ELSE IF FirstMissing(required_fields, data) # ""
    THEN Val(Error(<<"Missing required field: ", FirstMissing(required_fields, data)>>))
    ELSE Null

\* data[key] raises KeyError where the INSERT's parameters are built
InsertKeyError(data) ==
    \E k \in {"name", "axiom", "rules", "iterations", "angle"} : k \notin DOMAIN data

create_plant(data, timestamp, table, s) ==
    IF create_plant_checks(data) # Null
    THEN Answer(400, create_plant_checks(data)[1], table, s)
    ELSE IF InsertKeyError(data)
    THEN Answer(500, Error(<<"KeyError">>), table, s)
    ELSE LET ins == Insert(table, s, InsertValues(data, timestamp))
         IN  IF ins.exc = ""
             THEN Answer(201,
                         ToJson(FetchOne(SelectNewestByName(ins.table, data["name"]))[1]),
                         ins.table, ins.seq)
             ELSE IF ins.exc = "IntegrityError"
             THEN replace_plant(data, timestamp, table, s)
             ELSE Answer(500, Error(ins.msg), table, s)

-----------------------------------------------------------------------------
(* PUT /api/plants/<int:plant_id> *)

\* the parameters of the UPDATE: data.get(key) is None for an absent key
UpdateParams(data, timestamp) ==
    [ name |-> Get(data, "name", Null),
      timestamp |-> Val(timestamp),
      axiom |-> Get(data, "axiom", Null),
      rules |-> Get(data, "rules", Null),
      iterations |-> Get(data, "iterations", Null),
      angle |-> Get(data, "angle", Null),
      angle_variation |-> Get(data, "angleVariation", Null),
      length_variation |-> Get(data, "lengthVariation", Null),
      length_tapering |-> Get(data, "lengthTapering", Null),
      leaf_probability |-> Get(data, "leafProbability", Null),
      leaf_generation_threshold |-> Get(data, "leafGenerationThreshold", Null),
      length |-> Get(data, "length", Null),
      thickness |-> Get(data, "thickness", Null),
      tapering |-> Get(data, "tapering", Null) ]

\* COALESCE(?, column)
Coalesce(param, stored) == IF param # Null THEN param ELSE stored

\* the row that SET name = COALESCE(?, name), timestamp = ?, ... makes of r
UpdateSet(r, params) ==
    [ id |-> r.id,
      name |-> Coalesce(params.name, r.name),
      timestamp |-> params.timestamp,
      axiom |-> Coalesce(params.axiom, r.axiom),
      rules |-> Coalesce(params.rules, r.rules),
      iterations |-> Coalesce(params.iterations, r.iterations),
      angle |-> Coalesce(params.angle, r.angle),
      angle_variation |-> Coalesce(params.angle_variation, r.angle_variation),
      length_variation |-> Coalesce(params.length_variation, r.length_variation),
      length_tapering |-> Coalesce(params.length_tapering, r.length_tapering),
      leaf_probability |-> Coalesce(params.leaf_probability, r.leaf_probability),
      leaf_generation_threshold |->
          Coalesce(params.leaf_generation_threshold, r.leaf_generation_threshold),
      length |-> Coalesce(params.length, r.length),
      thickness |-> Coalesce(params.thickness, r.thickness),
      tapering |-> Coalesce(params.tapering, r.tapering) ]

\* UPDATE plants SET ... WHERE id = ?
UpdateById(table, s, params, plant_id) ==
    LET hit == SelectById(table, plant_id)
        new == {UpdateSet(r, params) : r \in hit}
    IN  IF \E r \in new : NotNullViolation(r) # 0
        THEN Raise("IntegrityError", <<"NOT NULL constraint failed">>, table, s)
        ELSE IF \E r \in new : UniqueViolation(table, r.id, r.name)
        THEN Raise("IntegrityError",
                   <<"UNIQUE constraint failed: plants.name">>, table, s)
        ELSE Done((table \ hit) \cup new, s)

update_plant(plant_id, data, timestamp, table, s) ==
    IF DOMAIN data = {}
    THEN Answer(400, Error(<<"No JSON data provided">>), table, s)
    ELSE IF FetchOne(SelectById(table, plant_id)) = Null
    THEN Answer(404, Error(<<"Plant not found">>), table, s)
    ELSE LET upd == UpdateById(table, s, UpdateParams(data, timestamp), plant_id)
         IN  IF upd.exc # ""
             THEN Answer(500, Error(upd.msg), table, s)
             ELSE Answer(200, ToJson(FetchOne(SelectById(upd.table, plant_id))[1]),
                         upd.table, s)

-----------------------------------------------------------------------------
(* DELETE /api/plants/<int:plant_id> and DELETE /api/plants/name/<name> *)

delete_plant(plant_id, table, s) ==
    LET plant == FetchOne(SelectById(table, plant_id))
    IN  IF plant = Null
        THEN Answer(404, Error(<<"Plant not found">>), table, s)
        ELSE Answer(200,
                    [message |-> <<"Plant \"", Str(plant[1].name),
                                   "\" deleted successfully">>],
                    DeleteById(table, plant_id), s)

delete_plant_by_name(name, table, s) ==
    LET plant == FetchOne(SelectByName(table, name))
    IN  IF plant = Null
        THEN Answer(404, Error(<<"Plant not found">>), table, s)
        ELSE Answer(200,
                    [message |-> <<"Plant \"", Str(name), "\" deleted successfully">>],
                    DeleteByName(table, name), s)

-----------------------------------------------------------------------------
(* GET /api/plants, /api/plants/<int:plant_id>, /api/plants/<name> *)

\* mutant: ORDER BY timestamp ASC
OrderByTimestampDesc_Asc(table) ==
    {f \in [1..Cardinality(table) -> table] :
        /\ \A i, j \in DOMAIN f : i # j => f[i] # f[j]
        /\ \A i, j \in DOMAIN f : i < j => f[i].timestamp[1] <= f[j].timestamp[1]}

\* the orders in which SELECT * FROM plants ORDER BY timestamp DESC may
\* return the rows: rows of equal timestamp come in either order
OrderByTimestampDesc(table) ==
    {f \in [1..Cardinality(table) -> table] :
        /\ \A i, j \in DOMAIN f : i # j => f[i] # f[j]
        /\ \A i, j \in DOMAIN f : i < j => f[i].timestamp[1] >= f[j].timestamp[1]}

get_plants(rows, table, s) ==
    Answer(200, [i \in DOMAIN rows |-> ToJson(rows[i])], table, s)

get_plant(plant_id, table, s) ==
    LET plant == FetchOne(SelectById(table, plant_id))
    IN  IF plant = Null
        THEN Answer(404, Error(<<"Plant not found">>), table, s)
        ELSE Answer(200, ToJson(plant[1]), table, s)

get_plant_by_name(name, table, s) ==
    LET plant == FetchOne(SelectByName(table, name))
    IN  IF plant = Null
        THEN Answer(404, Error(<<"Plant not found">>), table, s)
        ELSE Answer(200, ToJson(plant[1]), table, s)

-----------------------------------------------------------------------------
(* POST /api/plants/migrate *)

\* the localStorage record in the API's field names
MappedData(plant_data) ==
    [ name |-> Get(plant_data, "name", Null),
      axiom |-> Get(plant_data, "axiom", Null),
      rules |-> Get(plant_data, "rules", Null),
      iterations |-> Get(plant_data, "iterations", Null),
      angle |-> Get(plant_data, "angle", Null),
      angleVariation |-> Get(plant_data, "angleVariation", Val("0")),
      lengthVariation |-> Get(plant_data, "lengthVariation", Val("0")),
      lengthTapering |-> Get(plant_data, "lengthTapering", Val("1.0")),
      leafProbability |-> Get(plant_data, "leafProbability", Val("0")),
      leafGenerationThreshold |-> Get(plant_data, "leafThreshold", Val("0")),
      length |-> Get(plant_data, "length", Val("1.0")),
      thickness |-> Get(plant_data, "thickness", Val("0.1")),
      tapering |-> Get(plant_data, "tapering", Val("0.8")) ]

\* the parameters of the import's INSERT
MigrateValues(mapped_data, timestamp) ==
    [ name |-> mapped_data["name"],
      timestamp |-> timestamp,
      axiom |-> mapped_data["axiom"],
      rules |-> mapped_data["rules"],
      iterations |-> mapped_data["iterations"],
      angle |-> mapped_data["angle"],
      angle_variation |-> mapped_data["angleVariation"],
      length_variation |-> mapped_data["lengthVariation"],
      length_tapering |-> mapped_data["lengthTapering"],
      leaf_probability |-> mapped_data["leafProbability"],
      leaf_generation_threshold |-> mapped_data["leafGenerationThreshold"],
      length |-> mapped_data["length"],
      thickness |-> mapped_data["thickness"],
      tapering |-> mapped_data["tapering"] ]

\* mutant: the import stores the clock's reading whatever the record carries
migrate_record_ClockOnly(plant_data, t, table, s) ==
    IF ~IsDict(plant_data)
    THEN [exc |-> "AttributeError",
          msg |-> <<"'str' object has no attribute 'get'">>,
          table |-> table, seq |-> s, migrated |-> 0, errors |-> <<>>]
    ELSE LET mapped_data == MappedData(plant_data)
             ins == Insert(table, s, MigrateValues(mapped_data, Val(t)))
             skip(entry) == [exc |-> "", msg |-> <<>>, table |-> table, seq |-> s,
                             migrated |-> 0, errors |-> <<entry>>]
         IN  IF \E i \in DOMAIN required_fields :
                    Get(mapped_data, required_fields[i], Null) = Null
             THEN skip(<<"Missing required fields in plant: ",
                         Str(Get(plant_data, "name", Val("unnamed")))>>)
             ELSE IF ins.exc = ""
             THEN [exc |-> "", msg |-> <<>>, table |-> ins.table, seq |-> ins.seq,
                   migrated |-> 1, errors |-> <<>>]
             ELSE IF ins.exc = "IntegrityError"
             THEN skip(<<"Plant '", Str(mapped_data["name"]),
                         "' already exists, skipped">>)
             ELSE skip(<<"Error processing plant ",
                         Str(Get(plant_data, "name", Val("unnamed"))), ": ">> \o ins.msg)

\* One pass of the loop body over plant_data, the clock reading t, on the
\* connection's uncommitted table.  It answers [exc, msg, table, seq,
\* migrated, errors]: exc is "" when the loop goes on to the next record, and
\* otherwise the exception that leaves the loop.  A record that is no dict
\* raises AttributeError at plant_data.get, and the handler of that
\* exception calls plant_data.get again, outside any try.
migrate_record(plant_data, t, table, s) ==
    IF ~IsDict(plant_data)
    THEN [exc |-> "AttributeError",
          msg |-> <<"'str' object has no attribute 'get'">>,
          table |-> table, seq |-> s, migrated |-> 0, errors |-> <<>>]
    ELSE LET mapped_data == MappedData(plant_data)
             timestamp   == Get(plant_data, "timestamp", Val(t))
             ins == Insert(table, s, MigrateValues(mapped_data, timestamp))
             skip(entry) == [exc |-> "", msg |-> <<>>, table |-> table, seq |-> s,
                             migrated |-> 0, errors |-> <<entry>>]
         IN  IF \E i \in DOMAIN required_fields :
                    Get(mapped_data, required_fields[i], Null) = Null
             THEN skip(<<"Missing required fields in plant: ",
                         Str(Get(plant_data, "name", Val("unnamed")))>>)
             ELSE IF ins.exc = ""
             THEN [exc |-> "", msg |-> <<>>, table |-> ins.table, seq |-> ins.seq,
                   migrated |-> 1, errors |-> <<>>]
             ELSE IF ins.exc = "IntegrityError"
             THEN skip(<<"Plant '", Str(mapped_data["name"]),
                         "' already exists, skipped">>)
             ELSE skip(<<"Error processing plant ",
                         Str(Get(plant_data, "name", Val("unnamed"))), ": ">> \o ins.msg)

\* for plant_data in plants: ..., from the i-th record on
RECURSIVE migrate_loop(_, _, _, _, _, _, _)
migrate_loop(records, times, i, table, s, migrated_count, errors) ==
    IF i > Len(records)
    THEN [exc |-> "", msg |-> <<>>, table |-> table, seq |-> s,
          migrated_count |-> migrated_count, errors |-> errors]
    ELSE LET step == migrate_record(records[i], times[i], table, s)
         IN  IF step.exc # ""
             THEN [exc |-> step.exc, msg |-> step.msg, table |-> table, seq |-> s,
                   migrated_count |-> migrated_count, errors |-> errors]
             ELSE migrate_loop(records, times, i + 1, step.table, step.seq,
                               migrated_count + step.migrated, errors \o step.errors)

\* mutant: the connection commits what the batch has inserted when an
\* exception leaves the loop
migrate_from_localstorage_Commit(data, times, table, s) ==
    IF DOMAIN data = {} \/ "plants" \notin DOMAIN data
    THEN Answer(400, Error(<<"No plants data provided">>), table, s)
    ELSE IF ~IsList(data["plants"])
    THEN Answer(400, Error(<<"Plants data must be an array">>), table, s)
    ELSE LET loop == migrate_loop(data["plants"].items, times, 1, table, s, 0, <<>>)
         IN  IF loop.exc # ""
             THEN Answer(500, Error(loop.msg), loop.table, loop.seq)
             ELSE Answer(200,
                         [ message |-> <<"Migration completed. ", loop.migrated_count,
                                         " plants migrated.">>,
                           migrated_count |-> loop.migrated_count,
                           errors |-> loop.errors ],
                         loop.table, loop.seq)

\* An exception that leaves the loop leaves `with get_db_connection()` too:
\* the connection is closed without a commit, which rolls every INSERT of
\* the batch back.
migrate_from_localstorage(data, times, table, s) ==
    IF DOMAIN data = {} \/ "plants" \notin DOMAIN data
    THEN Answer(400, Error(<<"No plants data provided">>), table, s)
    ELSE IF ~IsList(data["plants"])
    THEN Answer(400, Error(<<"Plants data must be an array">>), table, s)
    ELSE LET loop == migrate_loop(data["plants"].items, times, 1, table, s, 0, <<>>)
         IN  IF loop.exc # ""
             THEN Answer(500, Error(loop.msg), table, s)
             ELSE Answer(200,
                         [ message |-> <<"Migration completed. ", loop.migrated_count,
                                         " plants migrated.">>,
                           migrated_count |-> loop.migrated_count,
                           errors |-> loop.errors ],
                         loop.table, loop.seq)

-----------------------------------------------------------------------------
(* migrate.py: migrate_plant_data, the importer of the command line *)

\* mutant: the script reads the canonical key leafGenerationThreshold
ScriptMappedData_CanonicalKey(plant_data, t) ==
    [ name |-> plant_data["name"],
      timestamp |-> Get(plant_data, "timestamp", Val(t)),
      axiom |-> plant_data["axiom"],
      rules |-> plant_data["rules"],
      iterations |-> plant_data["iterations"],
      angle |-> plant_data["angle"],
      angle_variation |-> Get(plant_data, "angleVariation", Val("0")),
      length_variation |-> Get(plant_data, "lengthVariation", Val("0")),
      length_tapering |-> Get(plant_data, "lengthTapering", Val("1.0")),
      leaf_probability |-> Get(plant_data, "leafProbability", Val("0")),
      leaf_generation_threshold |-> Get(plant_data, "leafGenerationThreshold", Val("0")),
      length |-> Get(plant_data, "length", Val("1.0")),
      thickness |-> Get(plant_data, "thickness", Val("0.1")),
      tapering |-> Get(plant_data, "tapering", Val("0.8")) ]

\* mapped_data of the script: the record under the names of the columns,
\* t being the clock's reading at this record
ScriptMappedData(plant_data, t) ==
    [ name |-> plant_data["name"],
      timestamp |-> Get(plant_data, "timestamp", Val(t)),
      axiom |-> plant_data["axiom"],
      rules |-> plant_data["rules"],
      iterations |-> plant_data["iterations"],
      angle |-> plant_data["angle"],
      angle_variation |-> Get(plant_data, "angleVariation", Val("0")),
      length_variation |-> Get(plant_data, "lengthVariation", Val("0")),
      length_tapering |-> Get(plant_data, "lengthTapering", Val("1.0")),
      leaf_probability |-> Get(plant_data, "leafProbability", Val("0")),
      leaf_generation_threshold |-> Get(plant_data, "leafThreshold", Val("0")),
      length |-> Get(plant_data, "length", Val("1.0")),
      thickness |-> Get(plant_data, "thickness", Val("0.1")),
      tapering |-> Get(plant_data, "tapering", Val("0.8")) ]

\* missing_fields: the required fields that are no key of the record
missing_fields(plant_data) ==
    SelectSeq(required_fields, LAMBDA field : field \notin DOMAIN plant_data)

\* One pass of the script's loop body.  It answers [exc, msg, table, seq,
\* migrated, skipped, errors] as migrate_record does.  A record that is a
\* string has none of the field names in it, so it goes to the branch of the
\* missing fields, whose message calls plant_data.get: AttributeError, and
\* the handler of that exception calls plant_data.get again, outside any try.
script_record(plant_data, t, table, s) ==
    IF ~IsDict(plant_data)
    THEN [exc |-> "AttributeError",
          msg |-> <<"'str' object has no attribute 'get'">>,
          table |-> table, seq |-> s, migrated |-> 0, skipped |-> 0, errors |-> <<>>]
    ELSE IF missing_fields(plant_data) # <<>>
    THEN [exc |-> "", msg |-> <<>>, table |-> table, seq |-> s,
          migrated |-> 0, skipped |-> 0,
          errors |-> << <<"Plant '", Str(Get(plant_data, "name", Val("unnamed"))),
                          "' missing fields: ", missing_fields(plant_data)>> >>]
    ELSE LET ins == Insert(table, s, ScriptMappedData(plant_data, t))
         IN  IF ins.exc = ""
             THEN [exc |-> "", msg |-> <<>>, table |-> ins.table, seq |-> ins.seq,
                   migrated |-> 1, skipped |-> 0, errors |-> <<>>]
             ELSE IF ins.exc = "IntegrityError"
             THEN [exc |-> "", msg |-> <<>>, table |-> table, seq |-> s,
                   migrated |-> 0, skipped |-> 1, errors |-> <<>>]
             ELSE [exc |-> "", msg |-> <<>>, table |-> table, seq |-> s,
                   migrated |-> 0, skipped |-> 0,
                   errors |-> << <<"Error processing plant '",
                                   Str(Get(plant_data, "name", Val("unnamed"))),
                                   "': ">> \o ins.msg >>]

\* for plant_data in plants_data: ..., from the i-th record on
RECURSIVE script_loop(_, _, _, _, _, _, _, _)
script_loop(records, times, i, table, s, migrated_count, skipped_count, errors) ==
    IF i > Len(records)
    THEN [exc |-> "", msg |-> <<>>, table |-> table, seq |-> s,
          migrated_count |-> migrated_count, skipped_count |-> skipped_count,
          errors |-> errors]
    ELSE LET step == script_record(records[i], times[i], table, s)
         IN  IF step.exc # ""
             THEN [exc |-> step.exc, msg |-> step.msg, table |-> table, seq |-> s,
                   migrated_count |-> migrated_count, skipped_count |-> skipped_count,
                   errors |-> errors]
             ELSE script_loop(records, times, i + 1, step.table, step.seq,
                              migrated_count + step.migrated,
                              skipped_count + step.skipped, errors \o step.errors)

\* migrate_plant_data(plants_data): `with sqlite3.connect(db_path) as conn`
\* commits when the block ends and rolls back when an exception leaves it.
\* It answers what the script prints and returns, or the exception raised.
migrate_plant_data(plants_data, times, table, s) ==
    IF ~IsList(plants_data)
    THEN Answer(0, [raised |-> <<>>, returned |-> FALSE], table, s)
    ELSE LET loop == script_loop(plants_data.items, times, 1, table, s, 0, 0, <<>>)
         IN  IF loop.exc # ""
             THEN Answer(0, [raised |-> loop.msg], table, s)
             ELSE Answer(0,
                         [ raised |-> <<>>,
                           migrated_count |-> loop.migrated_count,
                           skipped_count |-> loop.skipped_count,
                           errors |-> loop.errors,
                           returned |-> loop.migrated_count > 0 ],
                         loop.table, loop.seq)

-----------------------------------------------------------------------------
(* The requests explored *)

Names == {"fern", "oak"}

Full1 ==
    [axiom |-> Val("F"), rules |-> Val("F->F[+F]F[-F]"),
     iterations |-> Val("4"), angle |-> Val("25")]

Full2 ==
    [axiom |-> Val("X"), rules |-> Val("X->F"),
     iterations |-> Val("1"), angle |-> Val("10")]

Custom ==
    [angleVariation |-> Val("5"), lengthVariation |-> Val("0.2"),
     lengthTapering |-> Val("0.9"), leafProbability |-> Val("0.3"),
     leafGenerationThreshold |-> Val("2"), length |-> Val("2.0"),
     thickness |-> Val("0.5"), tapering |-> Val("0.7")]

Named(n, object) == Merge([name |-> Val(n)], object)

\* a timestamp of the client's, which no reading of the clock equals
ClientTime == MaxTime + 5

\* bodies of POST /api/plants that have every required field: with no
\* optional field, with all of them and a timestamp, with one, and with one
\* that is null
CompleteInputs ==
    { Named("fern", Full1),
      Merge(Merge(Named("fern", Full2), Custom), [timestamp |-> Val(ClientTime)]),
      Merge(Named("oak", Full1), [thickness |-> Val("0.5")]),
      Merge(Named("oak", Full2), [thickness |-> Null]) }

\* bodies that lack one required field or hold null in one, and the empty
\* object
CreateInputs ==
    CompleteInputs
    \cup {Drop(Named("fern", Full1), k) : k \in {"axiom", "rules", "iterations", "angle"}}
    \cup { Full1,
           Merge([name |-> Null], Full1),
           Merge(Named("fern", Full1), [axiom |-> Null]),
           EmptyObject }

\* bodies of PUT /api/plants/<id>
UpdateInputs ==
    { EmptyObject,
      [name |-> Val("oak")],
      [thickness |-> Val("0")],
      [name |-> Null, thickness |-> Null, angle |-> Val("10")],
      Merge(Merge(Full2, Custom), [timestamp |-> Val(ClientTime)]) }

PlantIds == 1..(MaxId + 1)

\* records of a bulk import: two complete ones (one with its own timestamp
\* and the legacy leafThreshold), one lacking axiom, and one that is a JSON
\* string instead of an object
ImportRecords ==
    { Named("fern", Full1),
      Merge(Named("oak", Full2),
            [timestamp |-> Val(0), leafThreshold |-> Val("3"), thickness |-> Val("0.5")]),
      Drop(Named("fern", Full1), "axiom"),
      Scalar("junk") }

Batches == UNION {[1..n -> ImportRecords] : n \in 0..MaxBatch}

MigrateInputs ==
    {[plants |-> List(b)] : b \in Batches}
    \cup {EmptyObject, [plants |-> Scalar("junk")]}

\* what time.time() can return next: the clock never runs backwards, and two
\* readings may fall into the same millisecond
ClockReads(t) == {u \in {t, t + 1} : u <= MaxTime}

\* the readings of n successive calls
ClockReadings(t, n) ==
    {times \in [1..n -> t..MaxTime] :
        \A i \in 1..n : times[i] \in ClockReads(IF i = 1 THEN t ELSE times[i - 1])}

-----------------------------------------------------------------------------
(* The state machine: one request at a time, each handled to its end *)

\* between two requests the server waits, the last exchange forgotten
Idle == [op |-> "idle"]
NoResponse == [status |-> 0, body |-> EmptyObject]

\* the threads of the server, and a thread that handles no request
Workers == {1, 2}

NoCall ==
    [ pc |-> "idle", op |-> "", data |-> EmptyObject, plant_id |-> 0, name |-> Null,
      timestamp |-> 0, plant |-> Null, status |-> 0, body |-> EmptyObject ]

Init ==
    /\ plants = {}
    /\ seq = 0
    /\ now = 0
    /\ request = Idle
    /\ response = NoResponse
    /\ before = {}
    /\ calls = [w \in Workers |-> NoCall]
    /\ created = {}

\* the handler's answer `out` to request `req`, its last clock reading t
Serve(req, out, t) ==
    /\ out.seq <= MaxId
    /\ plants' = out.table
    /\ seq' = out.seq
    /\ now' = t
    /\ request' = req
    /\ response' = [status |-> out.status, body |-> out.body]
    /\ before' = plants

Handle(req, out, t) ==
    /\ Serve(req, out, t)
    /\ UNCHANGED <<calls, created>>

CreatePlant ==
    /\ request = Idle
    /\ \E data \in CreateInputs, t \in ClockReads(now) :
        Handle([op |-> "create_plant", data |-> data],
               create_plant(data, t, plants, seq), t)

UpdatePlant ==
    /\ request = Idle
    /\ \E plant_id \in PlantIds, data \in UpdateInputs, t \in ClockReads(now) :
        Handle([op |-> "update_plant", plant_id |-> plant_id, data |-> data],
               update_plant(plant_id, data, t, plants, seq), t)

DeletePlant ==
    /\ request = Idle
    /\ \E plant_id \in PlantIds :
        Handle([op |-> "delete_plant", plant_id |-> plant_id],
               delete_plant(plant_id, plants, seq), now)

DeletePlantByName ==
    /\ request = Idle
    /\ \E name \in Names :
        Handle([op |-> "delete_plant_by_name", name |-> Val(name)],
               delete_plant_by_name(Val(name), plants, seq), now)

GetPlants ==
    /\ request = Idle
    /\ \E rows \in OrderByTimestampDesc(plants) :
        Handle([op |-> "get_plants"], get_plants(rows, plants, seq), now)

GetPlant ==
    /\ request = Idle
    /\ \E plant_id \in PlantIds :
        Handle([op |-> "get_plant", plant_id |-> plant_id],
               get_plant(plant_id, plants, seq), now)

GetPlantByName ==
    /\ request = Idle
    /\ \E name \in Names :
        Handle([op |-> "get_plant_by_name", name |-> Val(name)],
               get_plant_by_name(Val(name), plants, seq), now)

MigrateFromLocalstorage ==
    /\ request = Idle
    /\ \E data \in MigrateInputs :
        \E times \in ClockReadings(now, IF "plants" \in DOMAIN data /\ IsList(data["plants"])
                                        THEN Len(data["plants"].items) ELSE 0) :
            Handle([op |-> "migrate_from_localstorage", data |-> data, times |-> times],
                   migrate_from_localstorage(data, times, plants, seq),
                   IF times = <<>> THEN now ELSE times[Len(times)])

\* the answer is sent, and the server waits for the next request
Return ==
    /\ request # Idle
    /\ request' = Idle
    /\ response' = NoResponse
    /\ before' = {}
    /\ UNCHANGED <<plants, seq, now, calls, created>>

Next ==
    \/ CreatePlant
    \/ UpdatePlant
    \/ DeletePlant
    \/ DeletePlantByName
    \/ GetPlants
    \/ GetPlant
    \/ GetPlantByName
    \/ MigrateFromLocalstorage
    \/ Return

Spec == Init /\ [][Next]_vars

-----------------------------------------------------------------------------
(* The bulk import on its own: batches of legacy records, imported into the *)
(* tables that creates and earlier imports leave.                           *)

\* the records above, one that carries a timestamp that is null, and a
\* second complete record of the name fern
LegacyRecords ==
    ImportRecords
    \cup { Merge(Named("oak", Full1), [timestamp |-> Null]),
           Merge(Named("fern", Full2), Custom) }

LegacyBatches == UNION {[1..n -> LegacyRecords] : n \in 0..MaxBatch}

\* the creates that fill the table before an import
SeedInputs ==
    { Named("fern", Full1),
      Merge(Named("oak", Full1), [thickness |-> Val("0.5")]) }

SeedPlant ==
    /\ request = Idle
    /\ \E data \in SeedInputs, t \in ClockReads(now) :
        Handle([op |-> "create_plant", data |-> data],
               create_plant(data, t, plants, seq), t)

ImportBatch ==
    /\ request = Idle
    /\ \E b \in LegacyBatches :
        \E times \in ClockReadings(now, Len(b)) :
            Handle([op |-> "migrate_from_localstorage",
                    data |-> [plants |-> List(b)], times |-> times],
                   migrate_from_localstorage([plants |-> List(b)], times, plants, seq),
                   IF times = <<>> THEN now ELSE times[Len(times)])

NextImport ==
    \/ SeedPlant
    \/ ImportBatch
    \/ Return

SpecImport == Init /\ [][NextImport]_vars

-----------------------------------------------------------------------------
(* The listing after creates: the history variable `created` keeps the ids  *)
(* of the rows that create_plant inserted and that nothing has written      *)
(* since, so that their timestamps are the times of their creation.         *)

\* the handler's answer, and what it makes of `created`: a row that is no
\* longer in the table as it was leaves it, a row inserted by a create (201)
\* joins it
Track(req, out, t) ==
    /\ Serve(req, out, t)
    /\ created' = {i \in created : \E r \in plants : r.id = i /\ r \in out.table}
                   \cup (IF req.op = "create_plant" /\ out.status = 201
                         THEN {out.seq} ELSE {})
    /\ UNCHANGED calls

TrackedCreate ==
    /\ request = Idle
    /\ \E data \in SeedInputs, t \in ClockReads(now) :
        Track([op |-> "create_plant", data |-> data],
              create_plant(data, t, plants, seq), t)

TrackedUpdate ==
    /\ request = Idle
    /\ \E plant_id \in PlantIds, t \in ClockReads(now) :
        Track([op |-> "update_plant", plant_id |-> plant_id,
               data |-> [thickness |-> Val("0")]],
              update_plant(plant_id, [thickness |-> Val("0")], t, plants, seq), t)

TrackedDelete ==
    /\ request = Idle
    /\ \E plant_id \in PlantIds :
        Track([op |-> "delete_plant", plant_id |-> plant_id],
              delete_plant(plant_id, plants, seq), now)

TrackedList ==
    /\ request = Idle
    /\ \E rows \in OrderByTimestampDesc(plants) :
        Track([op |-> "get_plants"], get_plants(rows, plants, seq), now)

NextListing ==
    \/ TrackedCreate
    \/ TrackedUpdate
    \/ TrackedDelete
    \/ TrackedList
    \/ Return

SpecListing == Init /\ [][NextListing]_vars

-----------------------------------------------------------------------------
(* The threaded server.  app.run serves every request in a thread of its    *)
(* own and every handler opens a connection of its own.  SQLite lets one    *)
(* connection write at a time and shows no connection the uncommitted       *)
(* writes of another; a writer that finds the database locked waits, within *)
(* sqlite3.connect's timeout, until the other has committed.  Handlers      *)
(* therefore interleave statement by statement, except that the statements  *)
(* from a handler's first write to its commit form one step.                *)

\* the bodies and ids of the requests that threads handle at once
ThreadedCreates ==
    { Named("fern", Full1),
      Merge(Named("oak", Full2), [thickness |-> Val("0.5")]),
      Drop(Named("oak", Full1), "angle") }

ThreadedUpdates ==
    { EmptyObject, [name |-> Val("oak")] }

ThreadedIds == 1..MaxId

ThreadedImports ==
    {[plants |-> List(<<Named("fern", Full1)>>)]}

\* thread w goes on with `call`, and returns jsonify(body), status
Continue(w, call) == calls' = [calls EXCEPT ![w] = call]

Reply(w, call, status, body) ==
    Continue(w, [call EXCEPT !.pc = "done", !.status = status, !.body = body])

\* create_plant up to its reading of the clock
ReceiveCreate(w) ==
    /\ calls[w].pc = "idle"
    /\ \E data \in ThreadedCreates, t \in ClockReads(now) :
        LET call == [NoCall EXCEPT !.op = "create_plant", !.data = data,
                                   !.timestamp = t]
        IN  IF create_plant_checks(data) # Null
            THEN now' = now /\ Reply(w, call, 400, create_plant_checks(data)[1])
            ELSE now' = t /\ Continue(w, [call EXCEPT !.pc = "insert"])
    /\ UNCHANGED <<plants, seq, request, response, before, created>>

\* the INSERT, the UPDATE that follows its IntegrityError, and the commit
WriteCreate(w) ==
    LET call == calls[w]
        ins  == Insert(plants, seq, InsertValues(call.data, call.timestamp))
        upd  == UpdateByName(plants, seq, ReplaceValues(call.data, call.timestamp),
                             call.data["name"])
    IN  /\ call.op = "create_plant" /\ call.pc = "insert"
        /\ IF InsertKeyError(call.data)
           THEN /\ Reply(w, call, 500, Error(<<"KeyError">>))
                /\ UNCHANGED <<plants, seq>>
           ELSE IF ins.exc = ""
           THEN /\ ins.seq <= MaxId
                /\ plants' = ins.table /\ seq' = ins.seq
                /\ Continue(w, [call EXCEPT !.pc = "select_created"])
           ELSE IF upd.exc = ""
           THEN /\ plants' = upd.table /\ seq' = seq
                /\ Continue(w, [call EXCEPT !.pc = "select_replaced"])
           ELSE /\ Reply(w, call, 500, Error(upd.msg))
                /\ UNCHANGED <<plants, seq>>
        /\ UNCHANGED <<now, request, response, before, created>>

\* the SELECT of the row just written, and the answer built from it
SelectCreate(w) ==
    LET call  == calls[w]
        plant == FetchOne(IF call.pc = "select_created"
                          THEN SelectNewestByName(plants, call.data["name"])
                          ELSE SelectByName(plants, call.data["name"]))
    IN  /\ call.op = "create_plant"
        /\ call.pc \in {"select_created", "select_replaced"}
        /\ IF plant = Null
           THEN Reply(w, call, 500, Error(<<"'NoneType' object is not subscriptable">>))
           ELSE Reply(w, call, IF call.pc = "select_created" THEN 201 ELSE 200,
                      ToJson(plant[1]))
        /\ UNCHANGED <<plants, seq, now, request, response, before, created>>

\* update_plant up to its reading of the clock
ReceiveUpdate(w) ==
    /\ calls[w].pc = "idle"
    /\ \E plant_id \in ThreadedIds, data \in ThreadedUpdates, t \in ClockReads(now) :
        LET call == [NoCall EXCEPT !.op = "update_plant", !.plant_id = plant_id,
                                   !.data = data, !.timestamp = t]
        IN  IF DOMAIN data = {}
            THEN now' = now /\ Reply(w, call, 400, Error(<<"No JSON data provided">>))
            ELSE now' = t /\ Continue(w, [call EXCEPT !.pc = "check"])
    /\ UNCHANGED <<plants, seq, request, response, before, created>>

\* SELECT id FROM plants WHERE id = ?
CheckUpdate(w) ==
    LET call == calls[w]
    IN  /\ call.op = "update_plant" /\ call.pc = "check"
        /\ IF FetchOne(SelectById(plants, call.plant_id)) = Null
           THEN Reply(w, call, 404, Error(<<"Plant not found">>))
           ELSE Continue(w, [call EXCEPT !.pc = "update"])
        /\ UNCHANGED <<plants, seq, now, request, response, before, created>>

\* the UPDATE and the commit
WriteUpdate(w) ==
    LET call == calls[w]
        upd  == UpdateById(plants, seq, UpdateParams(call.data, call.timestamp),
                           call.plant_id)
    IN  /\ call.op = "update_plant" /\ call.pc = "update"
        /\ IF upd.exc # ""
           THEN Reply(w, call, 500, Error(upd.msg)) /\ plants' = plants
           ELSE Continue(w, [call EXCEPT !.pc = "select"]) /\ plants' = upd.table
        /\ UNCHANGED <<seq, now, request, response, before, created>>

\* the SELECT of the updated row, and the answer built from it
SelectUpdate(w) ==
    LET call  == calls[w]
        plant == FetchOne(SelectById(plants, call.plant_id))
    IN  /\ call.op = "update_plant" /\ call.pc = "select"
        /\ IF plant = Null
           THEN Reply(w, call, 500, Error(<<"'NoneType' object is not subscriptable">>))
           ELSE Reply(w, call, 200, ToJson(plant[1]))
        /\ UNCHANGED <<plants, seq, now, request, response, before, created>>

\* delete_plant: SELECT * FROM plants WHERE id = ?
CheckDelete(w) ==
    /\ calls[w].pc = "idle"
    /\ \E plant_id \in ThreadedIds :
        LET call  == [NoCall EXCEPT !.op = "delete_plant", !.plant_id = plant_id]
            plant == FetchOne(SelectById(plants, plant_id))
        IN  IF plant = Null
            THEN Reply(w, call, 404, Error(<<"Plant not found">>))
            ELSE Continue(w, [call EXCEPT !.pc = "delete", !.plant = plant])
    /\ UNCHANGED <<plants, seq, now, request, response, before, created>>

\* the DELETE, the commit and the answer
WriteDelete(w) ==
    LET call == calls[w]
    IN  /\ call.op = "delete_plant" /\ call.pc = "delete"
        /\ plants' = DeleteById(plants, call.plant_id)
        /\ Reply(w, call, 200,
                 [message |-> <<"Plant \"", Str(call.plant[1].name),
                                "\" deleted successfully">>])
        /\ UNCHANGED <<seq, now, request, response, before, created>>

\* delete_plant_by_name: SELECT * FROM plants WHERE name = ?
CheckDeleteByName(w) ==
    /\ calls[w].pc = "idle"
    /\ \E n \in Names :
        LET call  == [NoCall EXCEPT !.op = "delete_plant_by_name", !.name = Val(n)]
            plant == FetchOne(SelectByName(plants, Val(n)))
        IN  IF plant = Null
            THEN Reply(w, call, 404, Error(<<"Plant not found">>))
            ELSE Continue(w, [call EXCEPT !.pc = "delete", !.plant = plant])
    /\ UNCHANGED <<plants, seq, now, request, response, before, created>>

\* the DELETE, the commit and the answer
WriteDeleteByName(w) ==
    LET call == calls[w]
    IN  /\ call.op = "delete_plant_by_name" /\ call.pc = "delete"
        /\ plants' = DeleteByName(plants, call.name)
        /\ Reply(w, call, 200,
                 [message |-> <<"Plant \"", Str(call.name), "\" deleted successfully">>])
        /\ UNCHANGED <<seq, now, request, response, before, created>>

\* migrate_from_localstorage: its INSERTs and its commit are one transaction
Import(w) ==
    /\ calls[w].pc = "idle"
    /\ \E data \in ThreadedImports :
        \E times \in ClockReadings(now, Len(data["plants"].items)) :
            LET out == migrate_from_localstorage(data, times, plants, seq)
            IN  /\ out.seq <= MaxId
                /\ plants' = out.table /\ seq' = out.seq
                /\ now' = times[Len(times)]
                /\ Reply(w, [NoCall EXCEPT !.op = "migrate_from_localstorage",
                                           !.data = data],
                         out.status, out.body)
    /\ UNCHANGED <<request, response, before, created>>

\* the answer is sent, and the thread is free for the next request
Finish(w) ==
    /\ calls[w].pc = "done"
    /\ Continue(w, NoCall)
    /\ UNCHANGED <<plants, seq, now, request, response, before, created>>

NextThreaded ==
    \E w \in Workers :
        \/ ReceiveCreate(w)
        \/ WriteCreate(w)
        \/ SelectCreate(w)
        \/ ReceiveUpdate(w)
        \/ CheckUpdate(w)
        \/ WriteUpdate(w)
        \/ SelectUpdate(w)
        \/ CheckDelete(w)
        \/ WriteDelete(w)
        \/ CheckDeleteByName(w)
        \/ WriteDeleteByName(w)
        \/ Import(w)
        \/ Finish(w)

SpecThreaded == Init /\ [][NextThreaded]_vars

-----------------------------------------------------------------------------
(* The script run on a store that creates have filled *)

\* the records of the imports above, and a complete record whose angle is null
ScriptRecords ==
    LegacyRecords \cup { Merge(Named("oak", Full1), [angle |-> Null]) }

ScriptBatches == UNION {[1..n -> ScriptRecords] : n \in 0..MaxBatch}

\* python migrate.py plants.json; the request keeps the batch, the clock's
\* readings and the last id assigned before the run
RunMigrateScript ==
    /\ request = Idle
    /\ \E b \in ScriptBatches :
        \E times \in ClockReadings(now, Len(b)) :
            Handle([op |-> "migrate_plant_data", plants_data |-> List(b),
                    times |-> times, seq |-> seq],
                   migrate_plant_data(List(b), times, plants, seq),
                   IF times = <<>> THEN now ELSE times[Len(times)])

NextScript ==
    \/ SeedPlant
    \/ RunMigrateScript
    \/ Return

SpecScript == Init /\ [][NextScript]_vars

-----------------------------------------------------------------------------
(* GET /api/plants/<segment> through the URL map: the rules
   /api/plants/<int:plant_id> and /api/plants/<name> both have one variable
   segment, and the map tries the int converter before the string converter *)

\* names of rows: a word, and the decimal numerals of the ids
RoutedNames == {"fern"} \cup {ToString(n) : n \in 1..MaxId}

RoutedInputs == {Named(n, Full1) : n \in RoutedNames}

\* <int:plant_id>: the segment is made of digits only, and its value
IntConverter(segment) ==
    LET values == {n \in 0..(MaxId + 1) : ToString(n) = segment}
    IN  IF values = {} THEN Null ELSE Val(CHOOSE n \in values : TRUE)

\* the view function the URL map picks for GET /api/plants/<segment>
Endpoint(segment) ==
    IF IntConverter(segment) # Null THEN "get_plant" ELSE "get_plant_by_name"

\* the answer of that view function
Dispatch(segment, table, s) ==
    IF IntConverter(segment) # Null
    THEN get_plant(IntConverter(segment)[1], table, s)
    ELSE get_plant_by_name(Val(segment), table, s)

RoutedCreate ==
    /\ request = Idle
    /\ \E data \in RoutedInputs, t \in ClockReads(now) :
        Handle([op |-> "create_plant", data |-> data],
               create_plant(data, t, plants, seq), t)

RoutedDelete ==
    /\ request = Idle
    /\ \E plant_id \in PlantIds :
        Handle([op |-> "delete_plant", plant_id |-> plant_id],
               delete_plant(plant_id, plants, seq), now)

\* GET /api/plants/<segment>, the segment being a name a row can have
RoutedGet ==
    /\ request = Idle
    /\ \E segment \in RoutedNames :
        Handle([op |-> "GET /api/plants/<segment>", segment |-> segment,
                endpoint |-> Endpoint(segment)],
               Dispatch(segment, plants, seq), now)

NextRouting ==
    \/ RoutedCreate
    \/ RoutedDelete
    \/ RoutedGet
    \/ Return

SpecRouting == Init /\ [][NextRouting]_vars

-----------------------------------------------------------------------------
(* What the claims speak of *)

\* the optional fields: the key of the wire format, the column, and the
\* default the schema declares for it
OptionalFields ==
    { [key |-> "angleVariation", column |-> "angle_variation", default |-> Val("0")],
      [key |-> "lengthVariation", column |-> "length_variation", default |-> Val("0")],
      [key |-> "lengthTapering", column |-> "length_tapering", default |-> Val("1.0")],
      [key |-> "leafProbability", column |-> "leaf_probability", default |-> Val("0")],
      [key |-> "leafGenerationThreshold", column |-> "leaf_generation_threshold",
       default |-> Val("0")],
      [key |-> "length", column |-> "length", default |-> Val("1.0")],
      [key |-> "thickness", column |-> "thickness", default |-> Val("0.1")],
      [key |-> "tapering", column |-> "tapering", default |-> Val("0.8")] }

RequiredFields == {"name", "axiom", "rules", "iterations", "angle"}

\* the input supplies every required field with a value
AllRequiredSupplied(data) ==
    \A k \in RequiredFields : k \in DOMAIN data /\ data[k] # Null

\* row holds what a create of `data` is to store: the supplied values, and
\* the declared default for every optional field the input omits
StoresInput(row, data) ==
    /\ \A k \in RequiredFields : row[k] = data[k]
    /\ \A f \in OptionalFields :
           row[f.column] = IF f.key \in DOMAIN data THEN data[f.key] ELSE f.default

HasName(table, name) == \E r \in table : r.name = name

\* the fields a partial update can supply, each with its column
UpdatableFields ==
    {[key |-> k, column |-> k] : k \in RequiredFields}
    \cup {[key |-> f.key, column |-> f.column] : f \in OptionalFields}

HasId(table, plant_id) == \E r \in table : r.id = plant_id

Creating == request.op = "create_plant"
Updating == request.op = "update_plant"

\* a bulk import whose body carries a list of records
Migrating ==
    /\ request.op = "migrate_from_localstorage"
    /\ "plants" \in DOMAIN request.data
    /\ IsList(request.data["plants"])

Records == request.data["plants"].items

\* a record that nothing keeps from being inserted but a row of its name
Insertable(record) ==
    /\ IsDict(record)
    /\ AllRequiredSupplied(record)
    /\ Get(record, "timestamp", Val(0)) # Null

-----------------------------------------------------------------------------
\* C1: in every state that creates, partial updates, deletes and imports
\* reach, handled one after another or interleaved statement by statement,
\* no two rows of the table have the same name.
C1_NameUnique ==
    \A r1, r2 \in plants : r1.name = r2.name => r1 = r2

\* C1 witness: two threads have created the same name at once: thread 2 read
\* the clock first, thread 1 inserted the row first, thread 2 then replaced
\* it, and the table holds one row of that name beside another row.
C1_Witness ==
    /\ calls[1].op = "create_plant" /\ calls[1].status = 201
    /\ calls[2].op = "create_plant" /\ calls[2].status = 200
    /\ calls[1].data["name"] = calls[2].data["name"]
    /\ calls[2].timestamp < calls[1].timestamp
    /\ Cardinality(plants) = 2
    /\ \E r \in plants : r.name = calls[1].data["name"]

\* C2: a create with every required field supplied and a name no row has
\* adds exactly one row and answers 201 with it; the row's id differs from
\* every other row's id, it holds the supplied values and the declared
\* default of every omitted optional field; all other rows are unchanged.
C2_CreateAddsRow ==
    (Creating /\ AllRequiredSupplied(request.data)
              /\ ~HasName(before, request.data["name"]))
    => \E row \in plants :
        /\ row \notin before
        /\ plants = before \cup {row}
        /\ response.status = 201
        /\ response.body = ToJson(row)
        /\ \A r \in before : r.id # row.id
        /\ StoresInput(row, request.data)

\* C2 witness: a second row has been created from an input that omits
\* thickness, and holds its default.
C2_Witness ==
    /\ Creating /\ response.status = 201
    /\ Cardinality(before) = 1 /\ Cardinality(plants) = 2
    /\ "thickness" \notin DOMAIN request.data
    /\ \E row \in plants \ before : row.thickness = Val("0.1")

\* C3: a create with every required field supplied and the name of an
\* existing row answers 200, keeps that row's id and the number of rows,
\* sets its timestamp to the current time, overwrites every supplied field
\* and resets every omitted optional field to its declared default; it
\* changes no other row.
C3_CreateReplacesRow ==
    (Creating /\ AllRequiredSupplied(request.data)
              /\ HasName(before, request.data["name"]))
    => \E old \in before, row \in plants :
        /\ old.name = request.data["name"]
        /\ row.id = old.id
        /\ plants = (before \ {old}) \cup {row}
        /\ Cardinality(plants) = Cardinality(before)
        /\ response.status = 200
        /\ response.body = ToJson(row)
        /\ row.timestamp = Val(now)
        /\ StoresInput(row, request.data)

\* C3 witness: a row with thickness 0.5 and an earlier timestamp has been
\* replaced by an input that omits thickness, and now holds 0.1.
C3_Witness ==
    /\ Creating /\ response.status = 200
    /\ "thickness" \notin DOMAIN request.data
    /\ \E old \in before, row \in plants :
        /\ row.id = old.id
        /\ old.thickness = Val("0.5") /\ row.thickness = Val("0.1")
        /\ old.timestamp[1] < row.timestamp[1]
        /\ old.axiom # row.axiom

\* C4: a partial update of an existing id sets each column to the input's
\* value where the input supplies a non-null one and leaves it as stored
\* otherwise; it keeps the row's id and changes no other row.
C4_UpdateMerges ==
    (Updating /\ HasId(before, request.plant_id))
    => \E old \in before, row \in plants :
        /\ old.id = request.plant_id
        /\ row.id = request.plant_id
        /\ plants \ {row} = before \ {old}
        /\ \A f \in UpdatableFields :
               row[f.column] =
                   IF f.key \in DOMAIN request.data /\ request.data[f.key] # Null
                   THEN request.data[f.key]
                   ELSE old[f.column]

\* C5: a partial update of an existing id succeeds for every input, the
\* empty object included, and sets the row's timestamp to the current time.
C5_UpdateRefreshesTimestamp ==
    (Updating /\ HasId(before, request.plant_id))
    => /\ response.status = 200
       /\ \E row \in plants : row.id = request.plant_id /\ row.timestamp = Val(now)

\* C6: no create, partial update or import fails because of a name
\* collision: a write that meets the name of another row is not answered 500.
C6_NoCollisionFailure ==
    /\ (Creating /\ AllRequiredSupplied(request.data)
                 /\ HasName(before, request.data["name"]))
       => response.status # 500
    /\ (Updating /\ HasId(before, request.plant_id)
                 /\ \E other \in before :
                        /\ other.id # request.plant_id
                        /\ other.name = Get(request.data, "name", Null))
       => response.status # 500
    /\ (Migrating /\ \A i \in DOMAIN Records : Insertable(Records[i]))
       => response.status # 500

\* C7: a create whose input lacks one of the required fields is answered
\* 400 and leaves the table as it was, whether or not a row has its name.
C7_CreateValidates ==
    (Creating /\ \E k \in RequiredFields : k \notin DOMAIN request.data)
    => /\ response.status = 400
       /\ plants = before

\* C7 witness: an input with the name of an existing row and no angle has
\* been answered 400.
C7_Witness ==
    /\ Creating /\ response.status = 400
    /\ "name" \in DOMAIN request.data /\ "angle" \notin DOMAIN request.data
    /\ HasName(before, request.data["name"])

\* C8: a partial update of an id no row has is answered 404 for every input
\* and leaves the table unchanged.
C8_UpdateNotFound ==
    (Updating /\ ~HasId(before, request.plant_id))
    => /\ response.status = 404
       /\ plants = before

\* C9: a delete by id or by name that matches no row answers 404 and changes
\* nothing; one that matches removes exactly that row, leaves every other
\* row as it was, and a get by that id or name then answers 404.
C9_Delete ==
    /\ request.op = "delete_plant" =>
           IF HasId(before, request.plant_id)
           THEN /\ \E old \in before :
                       old.id = request.plant_id /\ plants = before \ {old}
                /\ response.status = 200
                /\ get_plant(request.plant_id, plants, seq).status = 404
           ELSE response.status = 404 /\ plants = before
    /\ request.op = "delete_plant_by_name" =>
           IF HasName(before, request.name)
           THEN /\ \E old \in before :
                       old.name = request.name /\ plants = before \ {old}
                /\ response.status = 200
                /\ get_plant_by_name(request.name, plants, seq).status = 404
           ELSE response.status = 404 /\ plants = before

\* C9 witness: one of two rows has been deleted by its id.
C9_Witness ==
    /\ request.op = "delete_plant" /\ response.status = 200
    /\ Cardinality(before) = 2 /\ Cardinality(plants) = 1

\* C10: a bulk import is record-isolated: whatever makes a record fail, the
\* call ends with its report, every record has been counted as migrated or
\* has one entry in the error list, and every record that could be inserted
\* has a row of its name in the store afterwards.
C10_RecordIsolated ==
    Migrating
    => /\ response.status = 200
       /\ response.body.migrated_count + Len(response.body.errors) = Len(Records)
       /\ \A i \in DOMAIN Records :
              Insertable(Records[i]) => HasName(plants, Records[i]["name"])

\* the i-th record of the batch is to be inserted: nothing keeps it from
\* that, no row had its name when the import began, and no record before it
\* in the batch brings that name
ToInsert(i) ==
    /\ Insertable(Records[i])
    /\ ~HasName(before, Records[i]["name"])
    /\ \A j \in 1..(i - 1) :
           ~(Insertable(Records[j]) /\ Records[j]["name"] = Records[i]["name"])

\* C11: every bulk import ends with a report in which migrated_count is the
\* number of rows the call added and migrated_count plus the number of
\* error entries is the number of records; every record that is neither a
\* duplicate nor invalid is a row of the store afterwards (so a batch of N
\* with one duplicate and one invalid record reports N-2 and two errors).
C11_ImportCounts ==
    Migrating
    => /\ response.status = 200
       /\ response.body.migrated_count = Cardinality(plants \ before)
       /\ response.body.migrated_count + Len(response.body.errors) = Len(Records)
       /\ \A i \in DOMAIN Records :
              ToInsert(i) => \E row \in plants \ before : row.name = Records[i]["name"]

\* row holds what the import makes of record: every column but id and
\* timestamp has the record's value, or the default of a field it omits
Imported(row, record) ==
    \A i \in DOMAIN Columns :
        Columns[i] # "timestamp"
        => row[Columns[i]] = MigrateValues(MappedData(record), Null)[Columns[i]]

\* C12: a bulk import changes no row that exists when a record is
\* processed: every row present before the call is in the table, unchanged,
\* after it, and of two records of one name in a batch the first is
\* inserted and stays as it was inserted.
C12_ImportKeepsRows ==
    Migrating
    => /\ before \subseteq plants
       /\ \A i, j \in DOMAIN Records :
              (i < j /\ ToInsert(i) /\ Insertable(Records[j])
                     /\ Records[j]["name"] = Records[i]["name"])
              => /\ \A row \in plants :
                        row.name = Records[i]["name"] => Imported(row, Records[i])
                 /\ response.status = 200 => HasName(plants, Records[i]["name"])

\* C12 witness: into a table that holds a row, a batch of two different
\* complete records of one name has been imported: one row was added, the
\* second record was reported.
C12_Witness ==
    /\ Migrating /\ response.status = 200
    /\ before # {} /\ Len(Records) = 2
    /\ ToInsert(1) /\ Insertable(Records[2])
    /\ Records[2]["name"] = Records[1]["name"] /\ Records[2] # Records[1]
    /\ Cardinality(plants \ before) = 1
    /\ Len(response.body.errors) = 1

\* the records of the batch that are not inserted, in the batch's order:
\* the k-th entry of the report's error list speaks of the k-th of them
Skipped ==
    SelectSeq([i \in DOMAIN Records |-> i], LAMBDA i : ~ToInsert(i))

\* a row of the name of the i-th record is in the store when the import
\* comes to that record
NameHeld(i) ==
    /\ IsDict(Records[i]) /\ "name" \in DOMAIN Records[i]
    /\ \/ HasName(before, Records[i]["name"])
       \/ \E j \in 1..(i - 1) :
              ToInsert(j) /\ Records[j]["name"] = Records[i]["name"]

AlreadyExists(entry) ==
    Len(entry) = 3 /\ entry[1] = "Plant '" /\ entry[3] = "' already exists, skipped"

\* C13: a bulk import reports a record as 'already exists, skipped' only
\* when a row of that record's name is in the store at the moment the
\* record is processed.
C13_AlreadyExistsOnlyForHeldName ==
    (Migrating /\ response.status = 200)
    => \A k \in DOMAIN response.body.errors :
           AlreadyExists(response.body.errors[k]) => NameHeld(Skipped[k])

\* C14: with requests handled one at a time, every request that is answered
\* with an error (400, 404 or 500) leaves the table exactly as it was.
C14_ErrorsChangeNothing ==
    (request # Idle /\ response.status \in {400, 404, 500})
    => plants = before

\* C14 witness: an import whose first record could be inserted has failed
\* as a whole on its second, and the table is as it was.
C14_Witness ==
    /\ Migrating /\ response.status = 500
    /\ Len(Records) = 2 /\ ToInsert(1)
    /\ plants = before

Listing == request.op = "get_plants"

\* C15: after any sequence of operations, listAll answers with every row of
\* the table exactly once, in non-increasing order of timestamp.
C15_ListAllOrdered ==
    Listing
    => /\ response.status = 200
       /\ Len(response.body) = Cardinality(plants)
       /\ {response.body[i] : i \in DOMAIN response.body} = {ToJson(r) : r \in plants}
       /\ \A i, j \in DOMAIN response.body :
              i < j => response.body[i].timestamp[1] >= response.body[j].timestamp[1]

\* C15 witness: a table of two rows with different timestamps has been
\* listed, the row with the larger id last.
C15_Witness ==
    /\ Listing /\ Len(response.body) = 2
    /\ response.body[1].timestamp[1] > response.body[2].timestamp[1]
    /\ response.body[1].id < response.body[2].id

\* C16: when config A has been created by a create and config B, of another
\* name, by a later create, and nothing has written A since, listAll
\* returns B before A, whatever times the clock gave the two creates.
C16_LaterCreateListedFirst ==
    Listing
    => \A i, j \in DOMAIN response.body :
           ( /\ response.body[i].id \in created
             /\ response.body[j].id \in created
             /\ response.body[i].id < response.body[j].id )
           => j < i

\* the input carries a timestamp of its own
SuppliesTimestamp == "timestamp" \in DOMAIN request.data

\* C17: a create, on its created and on its replaced path, and a partial
\* update store the clock's reading as timestamp; a timestamp in their
\* input never becomes the stored one.
C17_TimestampFromClock ==
    /\ (Creating /\ response.status \in {200, 201})
       => /\ response.body.timestamp = Val(now)
          /\ \A row \in plants :
                 row.name = request.data["name"]
                 => /\ row.timestamp = Val(now)
                    /\ SuppliesTimestamp => row.timestamp # request.data["timestamp"]
    /\ (Updating /\ response.status = 200)
       => /\ response.body.timestamp = Val(now)
          /\ \A row \in plants :
                 row.id = request.plant_id
                 => /\ row.timestamp = Val(now)
                    /\ SuppliesTimestamp => row.timestamp # request.data["timestamp"]

\* C17 witness: a create whose input carries a timestamp has inserted a row.
C17_Witness ==
    /\ Creating /\ response.status = 201
    /\ SuppliesTimestamp
    /\ \E row \in plants \ before : row.timestamp = Val(now)

\* the timestamp the i-th record of the batch asks for: its own when it
\* carries one, and the clock's reading at that record otherwise
RecordTimestamp(i) ==
    IF "timestamp" \in DOMAIN Records[i]
    THEN Records[i]["timestamp"]
    ELSE Val(request.times[i])

\* C18: every row a bulk import has inserted carries the timestamp of the
\* record it came from when the record has one, and otherwise the clock's
\* reading at that record.
C18_ImportTimestamp ==
    Migrating
    => /\ \A row \in plants \ before :
              \E i \in DOMAIN Records :
                  /\ ToInsert(i)
                  /\ row.name = Records[i]["name"]
                  /\ row.timestamp = RecordTimestamp(i)
       /\ response.status = 200
          => \A i \in DOMAIN Records :
                 ToInsert(i)
                 => \E row \in plants \ before :
                        /\ row.name = Records[i]["name"]
                        /\ row.timestamp = RecordTimestamp(i)

\* C18 witness: one import has inserted a record with a timestamp of its own,
\* which is not the clock's reading, and a record without one.
C18_Witness ==
    /\ Migrating /\ response.status = 200
    /\ Len(Records) = 2
    /\ Cardinality(plants \ before) = 2
    /\ "timestamp" \in DOMAIN Records[1]
    /\ Records[1]["timestamp"] # Val(request.times[1])
    /\ "timestamp" \notin DOMAIN Records[2]
    /\ \E row \in plants \ before :
           row.name = Records[2]["name"] /\ row.timestamp = Val(request.times[2])

\* the input of a create is an object that has every required key, one of
\* them with the value null
RequiredFieldNull ==
    /\ IsDict(request.data)
    /\ \A k \in RequiredFields : k \in DOMAIN request.data
    /\ \E k \in RequiredFields : request.data[k] = Null

\* C19: a create whose input has a required field that is null is answered
\* 400 and writes nothing.
C19_NullRequiredIsRejected ==
    (Creating /\ RequiredFieldNull)
    => /\ response.status = 400
       /\ plants = before

\* thread w has answered a delete, by id or by name, of the row it had found
\* under plant_id
DeletedRow(w, plant_id) ==
    /\ calls[w].pc = "done"
    /\ calls[w].op \in {"delete_plant", "delete_plant_by_name"}
    /\ calls[w].status = 200
    /\ calls[w].plant # Null
    /\ calls[w].plant[1].id = plant_id

\* C20: two delete requests, by id or by name, that interleave statement by
\* statement on the same row never both answer that they deleted it.
C20_OneDeleteSucceeds ==
    \A plant_id \in ThreadedIds :
        ~(DeletedRow(1, plant_id) /\ DeletedRow(2, plant_id))

\* thread w has answered a partial update of plant_id that carried data
UpdateAnswered(w, plant_id) ==
    /\ calls[w].pc = "done"
    /\ calls[w].op = "update_plant"
    /\ calls[w].plant_id = plant_id
    /\ calls[w].data # EmptyObject

\* thread w is in a delete by id of plant_id, whose row it has found
DeleteRunning(w, plant_id) ==
    /\ calls[w].op = "delete_plant"
    /\ calls[w].plant_id = plant_id
    /\ calls[w].plant # Null

\* C21: a partial update that interleaves statement by statement with a
\* delete of the same id answers 200 or 404, never 500.
C21_UpdateRacingDelete ==
    \A w, v \in Workers, plant_id \in ThreadedIds :
        (w # v /\ UpdateAnswered(w, plant_id) /\ DeleteRunning(v, plant_id))
        => calls[w].status \in {200, 404}

\* a GET of /api/plants/<segment> has been answered
GetBySegment == request.op = "GET /api/plants/<segment>"

\* C22: a GET of /api/plants/<name>, name being the name of a row of the
\* table, answers 200 with that row, also when the name is made of digits.
C22_GetByNameFindsRow ==
    GetBySegment
    => \A row \in plants :
           row.name = Val(request.segment)
           => /\ response.status = 200
              /\ response.body = ToJson(row)

\* the script has run on a batch
Scripted == request.op = "migrate_plant_data"

\* what POST /api/plants/migrate answers to the same batch on the store the
\* script started on, the clock reading the same
RestImport ==
    migrate_from_localstorage([plants |-> request.plants_data], request.times,
                              before, request.seq)

\* C23: the script and POST /api/plants/migrate, given the same store, batch
\* and clock, leave the same rows and the same sequence of ids, fail on the
\* same batches, and count the same number of migrated records.
C23_ImportersAgree ==
    Scripted
    => /\ plants = RestImport.table
       /\ seq = RestImport.seq
       /\ (response.body.raised = <<>>) <=> (RestImport.status = 200)
       /\ RestImport.status = 200
          => response.body.migrated_count = RestImport.body.migrated_count

\* C23 witness: the script has run on a record whose angle is null and a
\* record it inserted.
C23_Witness ==
    /\ Scripted
    /\ Len(request.plants_data.items) = 2
    /\ \E i \in 1..2 :
           /\ IsDict(request.plants_data.items[i])
           /\ missing_fields(request.plants_data.items[i]) = <<>>
           /\ request.plants_data.items[i]["angle"] = Null
    /\ response.body.raised = <<>>
    /\ response.body.migrated_count = 1
    /\ response.body.skipped_count = 1
    /\ Cardinality(plants \ before) = 1
    /\ RestImport.body.migrated_count = 1
    /\ Len(RestImport.body.errors) = 1

\* C24: an id is assigned once.  seq is the largest id ever assigned: it
\* never goes down, no row has an id above it, every row a step adds has an
\* id above the seq before the step, so an id of any earlier row, deleted or
\* not, is not given again; and a row that keeps its name over a step, as in
\* the replace path of a create, keeps its id.
C24_IdAssignedOnce ==
    [][ /\ seq' >= seq
        /\ \A row \in plants' : row.id <= seq'
        /\ \A row \in plants' : ~HasId(plants, row.id) => row.id > seq
        /\ \A r1, r2 \in plants' : r1.id = r2.id => r1 = r2
        /\ \A old \in plants, new \in plants' : old.name = new.name => old.id = new.id
      ]_vars

\* C24 witness: the only row has been deleted, and a create on the empty
\* table has given its row the id after the deleted one.
C24_Witness ==
    /\ Creating /\ response.status = 201
    /\ before = {}
    /\ response.body.id = 2
    /\ \E row \in plants : row.id = 2

\* C25: in every state that creates, partial updates and imports reach, no
\* column of any row is null, the optional columns included.
C25_NoNullColumn ==
    \A row \in plants :
        \A i \in DOMAIN Columns : row[Columns[i]] # Null

=============================================================================
